---------------------------- MODULE Spec2Model ----------------------------
(* Verification model of the kalshi-alerts analytics and alerting core:   *)
(*   AlertManager          (alert_manager.py)                             *)
(*   MarketBaselines       (baselines.py)                                 *)
(*   MarketClusterTracker  (clustering.py)                                *)
(*   score_trade           (scoring.py)                                   *)
(*   infer_cluster_key     (cluster_utils.py)                             *)
(*   Alerter               (alerter.py)                                   *)
(*   the trade feed        (monitor.py, storage.py)                       *)
(* Each component is driven by its own specification (SpecGateway,        *)
(* SpecGatewayProd, SpecDebugLane, SpecConcurrent, SpecBaselines,         *)
(* SpecBaselinesRead, SpecBaselinesScore, SpecBaselinesAny, SpecTracker,  *)
(* SpecScore, SpecClassifier, SpecAlerter, SpecFeed, SpecStore,           *)
(* SpecReconnect); the variables of the other components stay at their    *)
(* constructed values.  SpecIsolation drives the baselines, the cluster   *)
(* tracker or the gateway, one of them in a run.                          *)
(* The wall clock time.time() is taken to be non-decreasing.              *)
EXTENDS Integers, Sequences, FiniteSets, TLC

VARIABLES
    \* ---- AlertManager fields (alert_manager.py:6-29)
    daily_cap,            \* constructor argument daily_cap
    alert_mode,           \* ALERT_MODE read once in the constructor
    solo_threshold,       \* the solo threshold the deployment's policy asks for;
                          \* the constructor has no parameter that takes it
    alerts_sent_today,
    market_last_alert,    \* defaultdict(float): ticker -> time, 0 when absent
    cluster_last_alert,   \* defaultdict(float): cluster key -> time, 0 when absent
    debug_trades_seen,
    debug_sent_last_min,
    debug_window_start,
    \* ---- wall clock: the last value time.time() returned (seconds)
    now,
    \* ---- observation of the last gateway call (what it did)
    last,
    \* ---- time of the last alerter.send invocation per lane key, -1 if none
    solo_send_time,
    cluster_send_time,
    \* ---- MarketBaselines.data (baselines.py:14): ticker -> record, tracked tickers only
    data,
    \* ---- every (timestamp, volume_proxy) ever passed to update, per ticker, in call order
    inserted,
    \* ---- number of MarketBaselines.update calls made
    n_updates,
    \* ---- argument and result of the last MarketBaselines.snapshot call made
    \*      on its own
    snap,
    \* ---- the feed's receive clock: last int(time.time() * 1000) (monitor.py:302)
    now_ms,
    \* ---- MarketClusterTracker.events (clustering.py:8): cluster key -> deque of
    \*      (time, ticker, score)
    events,
    \* ---- every event ever added per cluster key, with the time add_event read
    ev_hist,
    \* ---- number of add_event calls made
    n_events,
    \* ---- arguments and returned summary of the last add_event call
    event_args,
    summary,
    \* ---- arguments and result of the last score_trade call
    score_in,
    score_out,
    \* ---- argument and result of the last infer_cluster_key call
    cluster_in,
    cluster_out,
    \* ---- Alerter fields (alerter.py:7-13)
    token,                \* os.getenv("TELEGRAM_BOT_TOKEN")
    chat_id,              \* os.getenv("TELEGRAM_CHAT_ID")
    base_url,
    \* ---- number of requests.post calls made by Alerter.send
    post_calls,
    \* ---- the last Alerter.send call: its request if it made one, what
    \*      requests.post did, and how the call ended
    posted,
    http,
    sent,
    \* ---- TradeStore: the rows of table trades in id order, by their UNIQUE
    \*      columns (an integer column holds Some(v), or None for NULL), and the
    \*      rows at the last commit (storage.py:16-33)
    rows,
    committed,
    \* ---- locals of ws_listen_trades (monitor.py:223-338)
    trade_counter,
    trade,                \* what parse_trade_message returned for the last message parsed
    backoff,              \* seconds slept before the next connection attempt
    ws,                   \* "closed" at the top of the reconnect loop, "open" in the message loop
    \* ---- the calls of process_solo_alert in flight when several threads drive
    \*      the AlertManager: each caller's position, ticker and local now
    callers

gatewayVars == <<daily_cap, alert_mode, solo_threshold, alerts_sent_today,
                 market_last_alert,
                 cluster_last_alert, debug_trades_seen, debug_sent_last_min,
                 debug_window_start, last, solo_send_time, cluster_send_time,
                 callers>>

baselineVars == <<data, inserted, n_updates, now_ms, snap>>

trackerVars == <<events, ev_hist, n_events, event_args, summary>>

scoreVars == <<score_in, score_out>>

classifierVars == <<cluster_in, cluster_out>>

alerterVars == <<token, chat_id, base_url, post_calls, posted, http, sent>>

feedVars == <<rows, committed, trade_counter, trade, backoff, ws>>

collaboratorVars == <<classifierVars, alerterVars, feedVars>>

nonGatewayVars == <<baselineVars, trackerVars, scoreVars, collaboratorVars>>

vars == <<gatewayVars, now, baselineVars, trackerVars, scoreVars, collaboratorVars>>

-----------------------------------------------------------------------------
(* Bounds of the model *)

MaxCap == 2          \* daily_cap ranges over 0..MaxCap
MaxSeen == 4         \* process_debug_trade is called at most MaxSeen times in debug mode
MaxCallers == 2      \* threads calling process_solo_alert at the same time
StartTime == 1000    \* first wall-clock reading (time.time() is far beyond any cooldown)

Tickers == {"TRUMP-A", "TRUMP-B"}
ClusterKeys == {"presidency"}

\* wall-clock readings around the cooldown and debug-window boundaries
ClockOffsets == {0, 300, 599, 600}
ClockValues == {StartTime + d : d \in ClockOffsets}
\* time.time() read by a call made when the last reading was t0
ClockFrom(t0) == {t \in ClockValues : t >= t0}

\* policies seen in deployments: the relaxed one and the production one
SoloPolicies == {1, 85}
SoloScores == {84, 85}
\* scores offered under the solo policies
PolicyScores == {50, 84, 85}
\* (count, max_score) summaries on both sides of each tier boundary
ClusterInputs == {<<1, 70>>, <<2, 69>>, <<2, 70>>, <<3, 59>>, <<3, 60>>, <<3, 70>>}
\* what alerter.send may return
SendResults == BOOLEAN
DebugContracts == {199, 200}

-----------------------------------------------------------------------------
(* MarketBaselines (baselines.py) *)

MaxUpdates == 6      \* update calls in a run driven by the receive clock
MaxRecorded == 3     \* update calls in a run with arbitrary timestamps
MaxReadUpdates == 5  \* update calls in a run with snapshots between them

\* updates of the feed over more than a day
MaxDayUpdates == 6

WindowNames == {"1m", "5m", "60m", "24h"}

\* a window table whose shortest window lasts two hours
WINDOWS_MS_long_1m ==
    ("1m" :> 120 * 60000) @@ ("5m" :> 5 * 60000) @@ ("60m" :> 60 * 60000)
        @@ ("24h" :> 24 * 60 * 60000)

WINDOWS_MS ==
    ("1m" :> 60000) @@ ("5m" :> 5 * 60000) @@ ("60m" :> 60 * 60000)
        @@ ("24h" :> 24 * 60 * 60000)

MIN_SAMPLES == 5

\* timestamps (ms) that separate the four windows: seen from 4000000 the others
\* lie in the 5m, the 60m and the 24h window only; 90500000 is beyond 24h of all
UpdateTimes == {0, 1000000, 3800000, 4000000, 90500000}
\* (contracts, yes_price_cents)
UpdateSizes == {<<10, 50>>, <<100, 50>>}

\* Optional values: None is the empty tuple, a present value v is <<v>>
None == << >>
Some(v) == <<v>>

\* median_24h and mad_24h are held in quarters, so that the halves and quarters
\* statistics.median produces for an even number of samples stay exact
Quarters(v) == 4 * v

RECURSIVE InsertSorted(_, _)
InsertSorted(sorted, v) ==
    IF sorted = << >> THEN <<v>>
    ELSE IF v <= Head(sorted) THEN <<v>> \o sorted
    ELSE <<Head(sorted)>> \o InsertSorted(Tail(sorted), v)

RECURSIVE Sorted(_)
Sorted(values) ==
    IF values = << >> THEN << >>
    ELSE InsertSorted(Sorted(Tail(values)), Head(values))

\* a median that takes the upper middle value when the count is even
median_high(values) ==
    Sorted(values)[Len(values) \div 2 + 1]

\* statistics.median of a non-empty sequence of even integers (values in
\* quarters are multiples of 2 wherever a mean of two is taken)
median(values) ==
    LET srt == Sorted(values)
        n == Len(values)
    IN  IF n % 2 = 1 THEN srt[(n + 1) \div 2]
        ELSE (srt[n \div 2] + srt[n \div 2 + 1]) \div 2

Abs(x) == IF x < 0 THEN -x ELSE x

init_market ==
    [trades |-> [w \in WindowNames |-> << >>], median_24h |-> None, mad_24h |-> None]

\* while dq and dq[0][0] < cutoff: dq.popleft()
RECURSIVE popleft_while_old(_, _)
popleft_while_old(dq, cutoff) ==
    IF dq # << >> /\ Head(dq)[1] < cutoff
    THEN popleft_while_old(Tail(dq), cutoff)
    ELSE dq

\* the record of market_ticker after update(market_ticker, ts_received_ms, ...)
updated_market(d, ts_received_ms, contracts, yes_price_cents) ==
    LET volume_proxy == contracts * yes_price_cents
        trades == [w \in WindowNames |->
                      popleft_while_old(Append(d.trades[w], <<ts_received_ms, volume_proxy>>),
                                        ts_received_ms - WINDOWS_MS[w])]
        vols_24h == [i \in 1..Len(trades["24h"]) |-> Quarters(trades["24h"][i][2])]
    IN  IF Len(vols_24h) >= MIN_SAMPLES
        THEN LET med == median(vols_24h)
                 abs_dev == [i \in 1..Len(vols_24h) |-> Abs(vols_24h[i] - med)]
             IN  [trades |-> trades, median_24h |-> Some(med),
                  mad_24h |-> Some(median(abs_dev))]
        ELSE [trades |-> trades, median_24h |-> d.median_24h, mad_24h |-> d.mad_24h]

\* an update that adds the trade to the windows of every tracked ticker
update_every_market(market_ticker, ts_received_ms, contracts, yes_price_cents) ==
    data' = [k \in DOMAIN data \cup {market_ticker} |->
                updated_market(IF k \in DOMAIN data THEN data[k] ELSE init_market,
                               ts_received_ms, contracts, yes_price_cents)]

update(market_ticker, ts_received_ms, contracts, yes_price_cents) ==
    LET d == IF market_ticker \in DOMAIN data THEN data[market_ticker] ELSE init_market
        d2 == updated_market(d, ts_received_ms, contracts, yes_price_cents)
    IN  data' = [k \in DOMAIN data \cup {market_ticker} |->
                    IF k = market_ticker THEN d2 ELSE data[k]]

snapshot(market_ticker) ==
    IF market_ticker \notin DOMAIN data THEN << >>
    ELSE LET d == data[market_ticker] IN
         [trades_1m |-> Len(d.trades["1m"]), trades_5m |-> Len(d.trades["5m"]),
          trades_60m |-> Len(d.trades["60m"]),
          median_24h |-> d.median_24h, mad_24h |-> d.mad_24h]

\* a snapshot that looks the ticker up as a defaultdict would, creating its record
snapshot_data_creating(market_ticker) ==
    [k \in DOMAIN data \cup {market_ticker} |->
        IF k \in DOMAIN data THEN data[k] ELSE init_market]

\* self.data after snapshot(market_ticker): the method assigns nothing, and
\* the lookup in the plain dict comes after the membership test
snapshot_data(market_ticker) == data

NoSnapshot == [market_ticker |-> "", result |-> << >>]

\* a snapshot call between updates
SnapshotCall ==
    \E market_ticker \in Tickers :
        /\ snap' = [market_ticker |-> market_ticker, result |-> snapshot(market_ticker)]
        /\ data' = snapshot_data(market_ticker)
        /\ UNCHANGED <<inserted, n_updates, now_ms, gatewayVars, now, trackerVars,
                       scoreVars, collaboratorVars>>

InitBaselineFields ==
    /\ data = << >>
    /\ snap = NoSnapshot
    /\ inserted = [k \in Tickers |-> << >>]
    /\ n_updates = 0
    /\ now_ms = 0

\* ws_listen_trades stamps each trade with the receive clock (monitor.py:300-305)
FeedUpdate ==
    \E ticker \in Tickers, t \in {u \in UpdateTimes : u >= now_ms}, size \in UpdateSizes :
        /\ n_updates < MaxUpdates
        /\ update(ticker, t, size[1], size[2])
        /\ now_ms' = t
        /\ n_updates' = n_updates + 1
        /\ UNCHANGED <<inserted, snap, gatewayVars, now, trackerVars, scoreVars,
                       collaboratorVars>>

\* update called with any timestamp, each call recorded
RecordedUpdate ==
    \E ticker \in Tickers, t \in UpdateTimes, size \in UpdateSizes :
        /\ n_updates < MaxRecorded
        /\ update(ticker, t, size[1], size[2])
        /\ inserted' = [inserted EXCEPT ![ticker] = Append(@, <<t, size[1] * size[2]>>)]
        /\ n_updates' = n_updates + 1
        /\ UNCHANGED <<now_ms, snap, gatewayVars, now, trackerVars, scoreVars,
                       collaboratorVars>>


-----------------------------------------------------------------------------
(* MarketClusterTracker (clustering.py) *)

MaxEvents == 3       \* add_event calls in a run

TrackedClusters == {"presidency", "scotus"}
EventScores == {70, 80}

\* constructor default window_seconds
window == 300

Range(seq) == {seq[i] : i \in 1..Len(seq)}

Max(set) == CHOOSE m \in set : \A x \in set : x <= m

\* a prune that never evicts
prune_nothing(dq, t) == dq

\* MarketClusterTracker._prune
RECURSIVE prune(_, _)
prune(dq, t) ==
    IF dq # << >> /\ Head(dq)[1] < t - window
    THEN prune(Tail(dq), t)
    ELSE dq

\* the orders in which list(unique_markets) may enumerate the set
ListsOf(set) ==
    {l \in [1..Cardinality(set) -> set] : \A x \in set : \E i \in DOMAIN l : l[i] = x}

\* a summary that counts events, not distinct tickers
event_summary_per_event(dq, markets) ==
    [count |-> Len(dq), markets |-> markets,
     max_score |-> IF dq # << >> THEN Max({e[3] : e \in Range(dq)}) ELSE 0]

\* the dict add_event returns for the pruned deque, markets being list(unique_markets)
event_summary(dq, markets) ==
    [count |-> Cardinality({e[2] : e \in Range(dq)}), markets |-> markets,
     max_score |-> IF dq # << >> THEN Max({e[3] : e \in Range(dq)}) ELSE 0]

add_event(cluster_key, ticker, score) ==
    \E t \in ClockFrom(now) :
        LET dq == prune(Append(events[cluster_key], <<t, ticker, score>>), t)
        IN  /\ now' = t
            /\ events' = [events EXCEPT ![cluster_key] = dq]
            /\ \E markets \in ListsOf({e[2] : e \in Range(dq)}) :
                   summary' = event_summary(dq, markets)
            /\ event_args' = [cluster_key |-> cluster_key, ticker |-> ticker,
                              score |-> score]
            /\ ev_hist' = [ev_hist EXCEPT ![cluster_key] = Append(@, <<t, ticker, score>>)]

NoSummary == [count |-> 0, markets |-> << >>, max_score |-> 0]
NoEvent == [cluster_key |-> "", ticker |-> "", score |-> 0]

InitTrackerFields ==
    /\ events = [k \in TrackedClusters |-> << >>]
    /\ ev_hist = [k \in TrackedClusters |-> << >>]
    /\ n_events = 0
    /\ event_args = NoEvent
    /\ summary = NoSummary

AddEventCall ==
    \E key \in TrackedClusters, ticker \in Tickers, score \in EventScores :
        /\ n_events < MaxEvents
        /\ add_event(key, ticker, score)
        /\ n_events' = n_events + 1
        /\ UNCHANGED <<gatewayVars, baselineVars, scoreVars, collaboratorVars>>

-----------------------------------------------------------------------------
(* score_trade (scoring.py) *)

\* dict.get(key, default); the empty dict is the empty tuple
get(dict, key, default) == IF key \in DOMAIN dict THEN dict[key] ELSE default

\* <<quotient, remainder>> of n * 10^k divided by d, for n >= 0 and d > 0
\* (long division, one decimal digit at a time)
RECURSIVE div_pow10(_, _, _)
div_pow10(n, d, k) ==
    IF k = 0 THEN <<n \div d, n % d>>
    ELSE LET p == div_pow10(n, d, k - 1)
         IN  <<10 * p[1] + (10 * p[2]) \div d, (10 * p[2]) % d>>

\* the tenths the format :.1f prints for x * 10^k = n / d >= 0: to nearest, an
\* exact tie to the even tenth
format_1f(n, d, k) ==
    LET p == div_pow10(n, d, k + 1)
    IN  IF 2 * p[2] > d THEN p[1] + 1
        ELSE IF 2 * p[2] < d THEN p[1]
        ELSE IF p[1] % 2 = 0 THEN p[1] ELSE p[1] + 1

\* z = (volume_proxy - median) / (1.4826 * mad + 1), median and mad in quarters:
\* z = 1000 * z_num / z_den, with z_den > 0 whenever mad >= 0
z_num(volume_proxy, median4) == 5 * (Quarters(volume_proxy) - median4)
z_den(mad4) == 7413 * mad4 + 20000

\* z >= tier, for a whole number tier
z_at_least(zn, zd, tier) == zn >= 0 /\ div_pow10(zn, zd, 3)[1] >= tier

\* burst = t1 / max(t60 / 60, 1) as the fraction burst_num / burst_den
\* a burst numerator that is not scaled by the 60 minutes of the hour
burst_num_unscaled(t1, t60) == t1
burst_num(t1, t60) == IF t60 > 60 THEN 60 * t1 ELSE t1
burst_den(t60) == IF t60 > 60 THEN t60 ELSE 1

\* a final score that is not clamped
unclamped(score) == score

\* min(score, 100)
clamped(score) == IF score < 100 THEN score ELSE 100

score_trade(volume_proxy, baselines, hours_to_close) ==
    LET median_ == get(baselines, "median_24h", None)
        mad == get(baselines, "mad_24h", None)
        \* 1) size shock
        shock == median_ # None /\ mad # None /\ mad[1] > 0
        zn == IF shock THEN z_num(volume_proxy, median_[1]) ELSE 0
        zd == IF shock THEN z_den(mad[1]) ELSE 1
        s1 == IF ~shock THEN 0
              ELSE IF z_at_least(zn, zd, 8) THEN 40
              ELSE IF z_at_least(zn, zd, 5) THEN 25
              ELSE IF z_at_least(zn, zd, 3) THEN 10 ELSE 0
        r1 == IF s1 > 0 THEN << <<"size_z=", format_1f(zn, zd, 3)>> >> ELSE << >>
        \* 2) burst
        t1 == get(baselines, "trades_1m", 0)
        t60 == get(baselines, "trades_60m", 0)
        bn == burst_num(t1, t60)
        bd == burst_den(t60)
        s2 == IF bn >= 10 * bd THEN 25
              ELSE IF bn >= 6 * bd THEN 18
              ELSE IF bn >= 3 * bd THEN 10 ELSE 0
        r2 == IF s2 > 0 THEN << <<"burst=", format_1f(bn, bd, 0)>> >> ELSE << >>
        \* 3) short-dated
        s3 == IF hours_to_close = None THEN 0
              ELSE IF hours_to_close[1] <= 24 THEN 20
              ELSE IF hours_to_close[1] <= 72 THEN 12
              ELSE IF hours_to_close[1] <= 168 THEN 6 ELSE 0
        r3 == IF s3 = 20 THEN << <<"short_dated<=24h", 0>> >>
              ELSE IF s3 = 12 THEN << <<"short_dated<=72h", 0>> >>
              ELSE IF s3 = 6 THEN << <<"short_dated<=7d", 0>> >> ELSE << >>
        \* 4) absolute size gate
        s4 == IF volume_proxy >= 250000 THEN 20
              ELSE IF volume_proxy >= 100000 THEN 15 ELSE 0
        r4 == IF s4 = 20 THEN << <<"abs_size>=250k", 0>> >>
              ELSE IF s4 = 15 THEN << <<"abs_size>=100k", 0>> >> ELSE << >>
    IN  [score |-> clamped(s1 + s2 + s3 + s4), reasons |-> r1 \o r2 \o r3 \o r4]

\* inputs of score_trade
ScoreVolumes == {1100, 4000, 5000, 100000, 300000}
ScoreTrades1m == {2, 3, 6, 10, 25}
ScoreTrades60m == {60, 120}
\* (median_24h, mad_24h) in cent-units, or absent
ScoreStats == {<<None, None>>, <<Some(Quarters(1000)), Some(Quarters(0))>>,
               <<Some(Quarters(1000)), Some(Quarters(100))>>,
               <<Some(Quarters(1000)), Some(Quarters(500))>>}
ScoreBaselines ==
    {<< >>} \cup
    {[trades_1m |-> t1, trades_5m |-> t1, trades_60m |-> t60,
      median_24h |-> st[1], mad_24h |-> st[2]] :
        t1 \in ScoreTrades1m, t60 \in ScoreTrades60m, st \in ScoreStats}
ScoreHours == {None, Some(24), Some(25), Some(72), Some(168), Some(169)}

NoScoreInput == [volume_proxy |-> 0, baselines |-> << >>, hours_to_close |-> None]

InitScoreFields ==
    /\ score_in = NoScoreInput
    /\ score_out = [score |-> 0, reasons |-> << >>]

ScoreCall ==
    \E volume_proxy \in ScoreVolumes, baselines \in ScoreBaselines,
       hours_to_close \in ScoreHours :
        /\ score_in' = [volume_proxy |-> volume_proxy, baselines |-> baselines,
                        hours_to_close |-> hours_to_close]
        /\ score_out' = score_trade(volume_proxy, baselines, hours_to_close)
        /\ UNCHANGED <<gatewayVars, now, baselineVars, trackerVars, collaboratorVars>>

-----------------------------------------------------------------------------
(* infer_cluster_key (cluster_utils.py) *)

\* identifiers are sequences of characters
UpperChars ==
    <<"A", "B", "C", "D", "E", "F", "G", "H", "I", "J", "K", "L", "M", "N", "O", "P", "Q", "R", "S",
    "T", "U", "V", "W", "X", "Y", "Z">>
LowerChars ==
    <<"a", "b", "c", "d", "e", "f", "g", "h", "i", "j", "k", "l", "m", "n", "o", "p", "q", "r", "s",
    "t", "u", "v", "w", "x", "y", "z">>

\* str.lower() on the characters identifiers are made of
lower(ticker) ==
    [i \in DOMAIN ticker |->
        IF \E j \in DOMAIN UpperChars : UpperChars[j] = ticker[i]
        THEN LowerChars[CHOOSE j \in DOMAIN UpperChars : UpperChars[j] = ticker[i]]
        ELSE ticker[i]]

\* keyword in t
contains(t, keyword) ==
    \E i \in 0..(Len(t) - Len(keyword)) : SubSeq(t, i + 1, i + Len(keyword)) = keyword

\* the keywords of the rules
kw ==
    [trump |-> <<"t", "r", "u", "m", "p">>,
     biden |-> <<"b", "i", "d", "e", "n">>,
     president |-> <<"p", "r", "e", "s", "i", "d", "e", "n", "t">>,
     house |-> <<"h", "o", "u", "s", "e">>,
     senate |-> <<"s", "e", "n", "a", "t", "e">>,
     congress |-> <<"c", "o", "n", "g", "r", "e", "s", "s">>,
     supreme |-> <<"s", "u", "p", "r", "e", "m", "e">>,
     scotus |-> <<"s", "c", "o", "t", "u", "s">>,
     election |-> <<"e", "l", "e", "c", "t", "i", "o", "n">>,
     primary |-> <<"p", "r", "i", "m", "a", "r", "y">>,
     rate |-> <<"r", "a", "t", "e">>,
     fed |-> <<"f", "e", "d">>,
     cut |-> <<"c", "u", "t">>,
     nba |-> <<"n", "b", "a">>,
     basketball |-> <<"b", "a", "s", "k", "e", "t", "b", "a", "l", "l">>]

\* a classifier that tests the elections rule before the presidency rule
infer_cluster_key_elections_first(ticker) ==
    LET t == lower(ticker)
    IN
        IF contains(t, kw.election) \/ contains(t, kw.primary)
            THEN "elections"
        ELSE IF contains(t, kw.trump) \/ contains(t, kw.biden) \/ contains(t, kw.president)
            THEN "presidency"
        ELSE IF contains(t, kw.house) \/ contains(t, kw.senate) \/ contains(t, kw.congress)
            THEN "congress"
        ELSE IF contains(t, kw.supreme) \/ contains(t, kw.scotus)
            THEN "scotus"
        ELSE IF contains(t, kw.rate) \/ contains(t, kw.fed) \/ contains(t, kw.cut)
            THEN "rates"
        ELSE IF contains(t, kw.nba) \/ contains(t, kw.basketball)
            THEN "nba"
        ELSE "other"

infer_cluster_key(ticker) ==
    LET t == lower(ticker)
    IN
        IF contains(t, kw.trump) \/ contains(t, kw.biden) \/ contains(t, kw.president)
            THEN "presidency"
        ELSE IF contains(t, kw.house) \/ contains(t, kw.senate) \/ contains(t, kw.congress)
            THEN "congress"
        ELSE IF contains(t, kw.supreme) \/ contains(t, kw.scotus)
            THEN "scotus"
        ELSE IF contains(t, kw.election) \/ contains(t, kw.primary)
            THEN "elections"
        ELSE IF contains(t, kw.rate) \/ contains(t, kw.fed) \/ contains(t, kw.cut)
            THEN "rates"
        ELSE IF contains(t, kw.nba) \/ contains(t, kw.basketball)
            THEN "nba"
        ELSE "other"

\* words identifiers are built from, in the spellings market titles use
Words ==
    {<<"T", "r", "u", "m", "p">>, <<"B", "I", "D", "E", "N">>,
     <<"P", "r", "e", "s", "i", "d", "e", "n", "t">>, <<"H", "o", "u", "s", "e">>,
     <<"s", "e", "n", "a", "t", "e">>, <<"C", "o", "n", "g", "r", "e", "s", "s">>,
     <<"S", "u", "p", "r", "e", "m", "e">>, <<"S", "C", "O", "T", "U", "S">>,
     <<"E", "l", "e", "c", "t", "i", "o", "n">>, <<"p", "r", "i", "m", "a", "r", "y">>,
     <<"R", "a", "t", "e">>, <<"F", "E", "D">>, <<"c", "u", "t">>, <<"N", "B", "A">>,
     <<"B", "a", "s", "k", "e", "t", "b", "a", "l", "l">>,
     <<"C", "o", "r", "p", "o", "r", "a", "t", "e">>, <<"F", "e", "d", "e", "r", "a", "l">>,
     <<"R", "a", "n", "d", "o", "m">>, <<"E", "v", "e", "n", "t">>,
     <<"K", "X", "H", "I", "G", "H", "N", "Y">>}

\* the identifiers of verify_clustering.py:
\*   Will Trump win?
\*   Who will control the House?
\*   Random Event
TestIdentifiers ==
    {<<"W", "i", "l", "l", " ", "T", "r", "u", "m", "p", " ", "w", "i", "n", "?">>,
     <<"W", "h", "o", " ", "w", "i", "l", "l", " ", "c", "o", "n", "t", "r", "o", "l", " ", "t", "h", "e", " ", "H", "o", "u", "s", "e", "?">>,
     <<"R", "a", "n", "d", "o", "m", " ", "E", "v", "e", "n", "t">>}

Identifiers ==
    {<< >>} \cup Words \cup TestIdentifiers
        \cup {w1 \o <<" ">> \o w2 : w1 \in Words, w2 \in Words}

InitClassifierFields ==
    /\ cluster_in = << >>
    /\ cluster_out = ""

ClassifyCall ==
    \E ticker \in Identifiers :
        /\ cluster_in' = ticker
        /\ cluster_out' = infer_cluster_key(ticker)
        /\ UNCHANGED <<gatewayVars, now, baselineVars, trackerVars, scoreVars, alerterVars,
                       feedVars>>

-----------------------------------------------------------------------------
(* Alerter (alerter.py) *)

MaxPosts == 3        \* requests.post calls in a run

\* what os.getenv returns: None when the variable is unset, else its string
TokenValues == {None, Some(""), Some("123:ABC"), Some("456:DEF")}
ChatIdValues == {None, Some(""), Some("999"), Some("-100200")}
Messages == {"Test", "Hello World"}

\* what requests.post does: it raises, or it returns a response with a status
HttpOutcomes ==
    {<<"exception">>, <<"status", 200>>, <<"status", 201>>, <<"status", 404>>,
     <<"status", 500>>}

\* truth value of an Optional string: None and "" are false
truthy(v) == v # None /\ v # Some("")

\* Alerter.__init__
alerter_constructed(env_token, env_chat_id) ==
    /\ token = env_token
    /\ chat_id = env_chat_id
    /\ base_url = IF truthy(env_token)
                  THEN Some(<<"https://api.telegram.org/bot", env_token[1], "/sendMessage">>)
                  ELSE None
    /\ post_calls = 0
    /\ posted = None
    /\ http = None
    /\ sent = None

\* a send that takes every 2xx status for a delivery
post_result_any_2xx(outcome) ==
    IF outcome[1] = "exception"
    THEN [returned |-> FALSE, raised |-> FALSE]
    ELSE [returned |-> outcome[2] \in 200..299, raised |-> FALSE]

\* the try block of send: the except clause turns an exception of
\* requests.post into False
post_result(outcome) ==
    IF outcome[1] = "exception"
    THEN [returned |-> FALSE, raised |-> FALSE]
    ELSE [returned |-> outcome[2] = 200, raised |-> FALSE]

\* Alerter.send
send(message) ==
    IF ~truthy(base_url) \/ ~truthy(chat_id)
    THEN /\ sent' = Some([returned |-> FALSE, raised |-> FALSE])
         /\ posted' = None
         /\ http' = None
         /\ UNCHANGED <<token, chat_id, base_url, post_calls>>
    ELSE \E outcome \in HttpOutcomes :
         /\ post_calls < MaxPosts
         /\ post_calls' = post_calls + 1
         /\ posted' = Some([url |-> base_url[1],
                            json |-> [chat_id |-> chat_id[1], text |-> message,
                                      parse_mode |-> "HTML"],
                            timeout |-> 3])
         /\ http' = outcome
         /\ sent' = Some(post_result(outcome))
         /\ UNCHANGED <<token, chat_id, base_url>>

InitAlerterFields == alerter_constructed(None, None)

SendCall ==
    \E message \in Messages :
        /\ send(message)
        /\ UNCHANGED <<gatewayVars, now, baselineVars, trackerVars, scoreVars,
                       classifierVars, feedVars>>

-----------------------------------------------------------------------------
(* The trade feed: parse_trade_message and the message loop of             *)
(* ws_listen_trades (monitor.py), TradeStore.insert_trade (storage.py)     *)

MaxTrades == 5       \* trades the loop processes in a run

\* receive-clock readings int(time.time() * 1000) of the feed
FeedTimes == {0, 1000000}

\* the score from which the loop prints its alert line
ALERT_SCORE == 60
COMMIT_EVERY == 50

\* a JSON value of a trade field: a number, a string that int() reads as a
\* number, any other string, or null; a missing field is no key at all
JsonInt(n) == <<"int", n>>
JsonNumStr(n) == <<"numstr", n>>
JsonStr(text) == <<"str", text>>
JsonNull == <<"null">>

TradeFields == {"yes_price", "no_price", "count", "ts"}

\* the "msg" object of a trade message of ticker with the given fields
TradeBody(ticker, yes_price, no_price, count, ts) ==
    ("market_ticker" :> ticker) @@ ("yes_price" :> yes_price)
        @@ ("no_price" :> no_price) @@ ("count" :> count) @@ ("ts" :> ts)

\* d without key
Without(d, key) == [k \in DOMAIN d \ {key} |-> d[k]]

GoodBody == TradeBody("TRUMP-A", JsonInt(50), JsonInt(50), JsonInt(10), JsonInt(1767723264))

\* raw WebSocket messages: json is whether json.loads succeeds
FeedMessages ==
    {[json |-> TRUE, type |-> "trade", msg |-> GoodBody],
     [json |-> TRUE, type |-> "trade",
      msg |-> TradeBody("TRUMP-A", JsonInt(50), JsonInt(50), JsonInt(100), JsonInt(1767723264))],
     [json |-> TRUE, type |-> "trade",
      msg |-> TradeBody("TRUMP-A", JsonInt(50), JsonInt(50), JsonInt(6000), JsonInt(1767723265))],
     [json |-> TRUE, type |-> "trade",
      msg |-> TradeBody("TRUMP-B", JsonInt(50), JsonInt(50), JsonInt(10), JsonInt(1767723264))],
     [json |-> TRUE, type |-> "trade",
      msg |-> TradeBody("TRUMP-A", JsonNumStr(50), JsonInt(50), JsonInt(10), JsonInt(1767723264))],
     [json |-> TRUE, type |-> "trade", msg |-> Without(GoodBody, "yes_price")],
     [json |-> TRUE, type |-> "trade", msg |-> Without(GoodBody, "ts")],
     [json |-> TRUE, type |-> "trade",
      msg |-> TradeBody("TRUMP-A", JsonStr("abc"), JsonInt(50), JsonInt(10), JsonInt(1767723264))],
     [json |-> TRUE, type |-> "trade",
      msg |-> TradeBody("TRUMP-A", JsonInt(50), JsonInt(50), JsonNull, JsonInt(1767723264))],
     [json |-> TRUE, type |-> "trade", msg |-> Without(GoodBody, "market_ticker")],
     [json |-> TRUE, type |-> "ticker", msg |-> GoodBody],
     [json |-> TRUE, type |-> "subscribed", msg |-> << >>],
     [json |-> FALSE, type |-> "", msg |-> << >>]}

\* int(data.get(field, 0)): the number, or None when int() raises ValueError
\* (a string that is no number) or TypeError (null)
int_of_field(msg_data, field) ==
    LET v == get(msg_data, field, JsonInt(0))
    IN  IF v[1] \in {"int", "numstr"} THEN Some(v[2]) ELSE None

\* parse_trade_message: the TradePrint, or None
parse_trade_message(msg) ==
    IF msg.type # "trade" THEN None
    ELSE LET msg_data == msg.msg
             ticker == get(msg_data, "market_ticker", "")
             yes_price == int_of_field(msg_data, "yes_price")
             no_price == int_of_field(msg_data, "no_price")
             count == int_of_field(msg_data, "count")
             ts == int_of_field(msg_data, "ts")
         IN  IF ticker = "" THEN None
             ELSE IF None \in {yes_price, no_price, count, ts} THEN None
             ELSE Some([market_ticker |-> ticker, yes_price |-> yes_price[1],
                        no_price |-> no_price[1], count |-> count[1], ts |-> ts[1]])

KeyColumns == {"ts_exchange", "yes_price_cents", "no_price_cents", "contracts"}

\* the UNIQUE constraint: new collides with row when all five columns are
\* equal; SQLite holds a NULL to be distinct from every value, NULL included
unique_conflict(row, new) ==
    /\ row.market_ticker = new.market_ticker
    /\ \A c \in KeyColumns : row[c] = new[c] /\ new[c] # None

\* TradeStore.insert_trade: INSERT OR IGNORE under the UNIQUE constraint
insert_trade(market_ticker, yes_price_cents, no_price_cents, contracts, ts_exchange) ==
    LET new == [market_ticker |-> market_ticker, ts_exchange |-> ts_exchange,
                yes_price_cents |-> yes_price_cents,
                no_price_cents |-> no_price_cents, contracts |-> contracts]
    IN  rows' = IF \E i \in DOMAIN rows : unique_conflict(rows[i], new)
                THEN rows
                ELSE Append(rows, new)

\* one iteration of `async for raw in ws` in ws_listen_trades
ws_message(raw) ==
    IF ~raw.json \/ raw.type \in {"error", "subscribed", "ok", "unsubscribed"}
    THEN UNCHANGED <<feedVars, data, n_updates, now_ms, scoreVars>>
    ELSE LET parsed == parse_trade_message(raw)
         IN  /\ trade' = parsed
             /\ IF parsed = None
                THEN UNCHANGED <<rows, committed, trade_counter, data, n_updates,
                                 now_ms, scoreVars>>
                ELSE LET tp == parsed[1]
                         volume_proxy == tp.count * tp.yes_price
                     IN  \E t \in {u \in FeedTimes : u >= now_ms} :
                             /\ trade_counter < MaxTrades
                             /\ insert_trade(tp.market_ticker, Some(tp.yes_price),
                                             Some(tp.no_price), Some(tp.count),
                                             Some(tp.ts))
                             /\ now_ms' = t
                             /\ update(tp.market_ticker, t, tp.count, tp.yes_price)
                             /\ n_updates' = n_updates + 1
                             /\ score_in' = [volume_proxy |-> volume_proxy,
                                             baselines |-> snapshot(tp.market_ticker)',
                                             hours_to_close |-> None]
                             /\ score_out' = score_trade(volume_proxy,
                                                         snapshot(tp.market_ticker)', None)
                             /\ trade_counter' = trade_counter + 1
                             /\ committed' = IF (trade_counter + 1) % COMMIT_EVERY = 0
                                             THEN rows' ELSE committed

InitFeedFields ==
    /\ rows = << >>
    /\ committed = << >>
    /\ trade_counter = 0
    /\ trade = None
    /\ backoff = 1
    /\ ws = "closed"

InitCollaboratorFields ==
    /\ InitClassifierFields
    /\ InitAlerterFields
    /\ InitFeedFields

MaxRows == 3         \* rows the table holds in a run driven by insert_trade

\* arguments of insert_trade: Optional[int], None being stored as NULL
StoreYesPrices == {None, Some(50)}
StoreNoPrices == {Some(50)}
StoreContracts == {Some(10), Some(100)}
StoreTimes == {None, Some(1767723264)}

InsertCall ==
    \E market_ticker \in Tickers, yes_price_cents \in StoreYesPrices,
       no_price_cents \in StoreNoPrices, contracts \in StoreContracts,
       ts_exchange \in StoreTimes :
        /\ Len(rows) < MaxRows
        /\ insert_trade(market_ticker, yes_price_cents, no_price_cents, contracts,
                        ts_exchange)
        /\ UNCHANGED <<committed, trade_counter, trade, gatewayVars, now, baselineVars,
                       trackerVars, scoreVars, classifierVars, alerterVars,
                       backoff, ws>>

\* TradeStore.commit
CommitCall ==
    /\ committed' = rows
    /\ UNCHANGED <<rows, trade_counter, trade, gatewayVars, now, baselineVars,
                   trackerVars, scoreVars, classifierVars, alerterVars,
                       backoff, ws>>

\* one pass of the reconnect loop up to the message loop: websockets.connect
\* and the subscribe either succeed, and backoff is reset, or raise, and the
\* handler sleeps backoff seconds and doubles it up to 30
Connect ==
    \E connected \in BOOLEAN :
        /\ ws = "closed"
        /\ ws' = IF connected THEN "open" ELSE "closed"
        /\ backoff' = IF connected THEN 1
                      ELSE IF backoff * 2 < 30 THEN backoff * 2 ELSE 30
        /\ UNCHANGED <<gatewayVars, now, baselineVars, trackerVars, scoreVars,
                       classifierVars, alerterVars, rows, committed, trade_counter, trade>>

\* the message loop ends: an exception reaches the handler, which sleeps
\* backoff seconds and doubles it up to 30, or the iteration over ws ends
\* without one (the connection was closed normally) and the loop goes on
Disconnect ==
    \E raised \in BOOLEAN :
        /\ ws = "open"
        /\ ws' = "closed"
        /\ backoff' = IF ~raised THEN backoff
                      ELSE IF backoff * 2 < 30 THEN backoff * 2 ELSE 30
        /\ UNCHANGED <<gatewayVars, now, baselineVars, trackerVars, scoreVars,
                       classifierVars, alerterVars, rows, committed, trade_counter, trade>>

\* a trade message received on the open connection
ReceiveTrade ==
    /\ ws = "open"
    /\ ws_message([json |-> TRUE, type |-> "trade", msg |-> GoodBody])
    /\ UNCHANGED <<gatewayVars, now, inserted, snap, trackerVars, classifierVars,
                   alerterVars, backoff, ws>>

FeedMessage ==
    \E raw \in FeedMessages :
        /\ ws_message(raw)
        /\ UNCHANGED <<gatewayVars, now, inserted, snap, trackerVars, classifierVars,
                       alerterVars,
                       backoff, ws>>

-----------------------------------------------------------------------------
(* AlertManager configuration *)

MARKET_COOLDOWN == 600
CLUSTER_COOLDOWN == 300
SOLO_THRESHOLD == 85         \* the literal of process_solo_alert
debug_sample_every == 3      \* DEBUG_SAMPLE_EVERY as set for these runs (unset: 20)
debug_min_contracts == 200
debug_max_per_min == 3
DEBUG_WINDOW == 60           \* the literal of the rate-limit window reset

NoCall == [op |-> "none", key |-> "", outcome |-> "none", tier |-> ""]

\* a cap check that is off by one
can_send_off_by_one == alerts_sent_today <= daily_cap

can_send == alerts_sent_today < daily_cap

\* a _send_internal that counts every invoked send, confirmed or not
send_internal_counts_attempts(success) ==
    IF ~can_send THEN alerts_sent_today ELSE alerts_sent_today + 1

\* a _send_internal that starts a new day when the cap is reached
send_internal_new_day(success) ==
    IF ~can_send THEN 0
    ELSE IF success THEN alerts_sent_today + 1 ELSE alerts_sent_today

\* _send_internal: the new value of alerts_sent_today, given what
\* alerter.send returns when it is invoked
send_internal(success) ==
    IF ~can_send THEN alerts_sent_today
    ELSE IF success THEN alerts_sent_today + 1 ELSE alerts_sent_today

\* what _send_internal did: suppressed by the cap, or send invoked
send_outcome(success) ==
    IF ~can_send THEN "cap"
    ELSE IF success THEN "sent_ok" ELSE "sent_fail"

SendInvoked(outcome) == outcome \in {"sent_ok", "sent_fail"}

\* a solo cooldown check that uses the cluster lane's duration
solo_cooldown_active_short(ticker, t) ==
    t - market_last_alert[ticker] < CLUSTER_COOLDOWN

solo_cooldown_active(ticker, t) == t - market_last_alert[ticker] < MARKET_COOLDOWN

\* a cluster cooldown check that uses the solo lane's duration
cluster_cooldown_active_long(key, t) ==
    t - cluster_last_alert[key] < MARKET_COOLDOWN

cluster_cooldown_active(key, t) == t - cluster_last_alert[key] < CLUSTER_COOLDOWN

\* a first tier that asks for three markets
is_tier_1_strict(count, max_score) == max_score >= 70 /\ count >= 3

is_tier_1(count, max_score) == max_score >= 70 /\ count >= 2
is_tier_2(count, max_score) == max_score >= 60 /\ count >= 3

process_solo_alert(ticker, score) ==
    IF score < SOLO_THRESHOLD
    THEN /\ last' = [op |-> "solo", key |-> ticker,
                     outcome |-> "threshold", tier |-> ""]
         /\ UNCHANGED <<daily_cap, alert_mode, solo_threshold, alerts_sent_today, market_last_alert,
                        cluster_last_alert, debug_trades_seen, debug_sent_last_min,
                        debug_window_start, now, solo_send_time, cluster_send_time,
                        callers, nonGatewayVars>>
    ELSE \E t \in ClockFrom(now) :
         /\ now' = t
         /\ IF solo_cooldown_active(ticker, t)
            THEN /\ last' = [op |-> "solo", key |-> ticker,
                             outcome |-> "cooldown", tier |-> ""]
                 /\ UNCHANGED <<alerts_sent_today, market_last_alert, solo_send_time>>
            ELSE \E success \in SendResults :
                 /\ alerts_sent_today' = send_internal(success)
                 /\ market_last_alert' = [market_last_alert EXCEPT ![ticker] = t]
                 /\ last' = [op |-> "solo", key |-> ticker,
                             outcome |-> send_outcome(success), tier |-> ""]
                 /\ solo_send_time' =
                        IF SendInvoked(send_outcome(success))
                        THEN [solo_send_time EXCEPT ![ticker] = t]
                        ELSE solo_send_time
         /\ UNCHANGED <<daily_cap, alert_mode, solo_threshold, cluster_last_alert,
                        debug_trades_seen, debug_sent_last_min, debug_window_start,
                        cluster_send_time, callers, nonGatewayVars>>

process_cluster_alert(cluster_key, count, max_score) ==
    IF ~(is_tier_1(count, max_score) \/ is_tier_2(count, max_score))
    THEN /\ last' = [op |-> "cluster", key |-> cluster_key,
                     outcome |-> "threshold", tier |-> ""]
         /\ UNCHANGED <<daily_cap, alert_mode, solo_threshold, alerts_sent_today, market_last_alert,
                        cluster_last_alert, debug_trades_seen, debug_sent_last_min,
                        debug_window_start, now, solo_send_time, cluster_send_time,
                        callers, nonGatewayVars>>
    ELSE \E t \in ClockFrom(now) :
         /\ now' = t
         /\ IF cluster_cooldown_active(cluster_key, t)
            THEN /\ last' = [op |-> "cluster", key |-> cluster_key,
                             outcome |-> "cooldown", tier |-> ""]
                 /\ UNCHANGED <<alerts_sent_today, cluster_last_alert, cluster_send_time>>
            ELSE \E success \in SendResults :
                 /\ alerts_sent_today' = send_internal(success)
                 /\ cluster_last_alert' = [cluster_last_alert EXCEPT ![cluster_key] = t]
                 /\ last' = [op |-> "cluster", key |-> cluster_key,
                             outcome |-> send_outcome(success),
                             tier |-> IF is_tier_1(count, max_score)
                                      THEN "TIER 1" ELSE "TIER 2"]
                 /\ cluster_send_time' =
                        IF SendInvoked(send_outcome(success))
                        THEN [cluster_send_time EXCEPT ![cluster_key] = t]
                        ELSE cluster_send_time
         /\ UNCHANGED <<daily_cap, alert_mode, solo_threshold, market_last_alert,
                        debug_trades_seen, debug_sent_last_min, debug_window_start,
                        solo_send_time, callers, nonGatewayVars>>

\* the rate-limit window reset of process_debug_trade
debug_window_reset(t) == t - debug_window_start > DEBUG_WINDOW

\* a rate limit that lets one more message through
debug_rate_limited_late(sent_min) == sent_min > debug_max_per_min

\* if self.debug_sent_last_min >= self.debug_max_per_min: return
debug_rate_limited(sent_min) == sent_min >= debug_max_per_min

\* a qualification that asks for a sampled trade that is also large
debug_qualifies_both(seen, contracts) ==
    seen % debug_sample_every = 0 /\ contracts >= debug_min_contracts

\* is_sample or is_large, seen being debug_trades_seen after its increment
debug_qualifies(seen, contracts) ==
    LET is_sample == seen % debug_sample_every = 0
        is_large == contracts >= debug_min_contracts
    IN  is_sample \/ is_large

process_debug_trade(ticker, contracts) ==
    IF alert_mode # "debug"
    THEN /\ last' = [op |-> "debug", key |-> "",
                     outcome |-> "disabled", tier |-> ""]
         /\ UNCHANGED <<daily_cap, alert_mode, solo_threshold, alerts_sent_today, market_last_alert,
                        cluster_last_alert, debug_trades_seen, debug_sent_last_min,
                        debug_window_start, now, solo_send_time, cluster_send_time,
                        callers, nonGatewayVars>>
    ELSE \E t \in ClockFrom(now) :
         /\ debug_trades_seen < MaxSeen
         /\ now' = t
         /\ debug_trades_seen' = debug_trades_seen + 1
         /\ debug_window_start' = IF debug_window_reset(t) THEN t ELSE debug_window_start
         /\ LET sent_min == IF debug_window_reset(t) THEN 0 ELSE debug_sent_last_min
            IN  IF debug_rate_limited(sent_min)
                THEN /\ debug_sent_last_min' = sent_min
                     /\ last' = [op |-> "debug", key |-> "",
                                 outcome |-> "ratelimit", tier |-> ""]
                     /\ UNCHANGED alerts_sent_today
                ELSE IF debug_qualifies(debug_trades_seen + 1, contracts)
                THEN \E success \in SendResults :
                     /\ alerts_sent_today' = send_internal(success)
                     /\ debug_sent_last_min' = sent_min + 1
                     /\ last' = [op |-> "debug", key |-> "",
                                 outcome |-> send_outcome(success), tier |-> ""]
                ELSE /\ debug_sent_last_min' = sent_min
                     /\ last' = [op |-> "debug", key |-> "",
                                 outcome |-> "noqualify", tier |-> ""]
                     /\ UNCHANGED alerts_sent_today
         /\ UNCHANGED <<daily_cap, alert_mode, solo_threshold, market_last_alert, cluster_last_alert,
                        solo_send_time, cluster_send_time,
                        callers, nonGatewayVars>>

\* a thread that is in no call
IdleCaller == [pc |-> "idle", ticker |-> "", now |-> 0]

\* process_solo_alert up to the call of _send_internal: the threshold, the
\* clock reading and the cooldown check
SoloEnter(c) ==
    \E ticker \in Tickers, score \in SoloScores, t \in ClockFrom(now) :
        /\ callers[c].pc = "idle"
        /\ score >= SOLO_THRESHOLD
        /\ now' = t
        /\ callers' = [callers EXCEPT ![c] =
                          IF solo_cooldown_active(ticker, t) THEN IdleCaller
                          ELSE [pc |-> "can_send", ticker |-> ticker, now |-> t]]
        /\ UNCHANGED <<daily_cap, alert_mode, solo_threshold, alerts_sent_today,
                       market_last_alert, cluster_last_alert, debug_trades_seen,
                       debug_sent_last_min, debug_window_start, last, solo_send_time,
                       cluster_send_time, nonGatewayVars>>

\* _send_internal: if not self.can_send(): return
CanSendCheck(c) ==
    /\ callers[c].pc = "can_send"
    /\ callers' = [callers EXCEPT ![c].pc = IF can_send THEN "send" ELSE "stamp"]
    /\ UNCHANGED <<daily_cap, alert_mode, solo_threshold, alerts_sent_today,
                   market_last_alert, cluster_last_alert, debug_trades_seen,
                   debug_sent_last_min, debug_window_start, last, solo_send_time,
                   cluster_send_time, now, nonGatewayVars>>

\* _send_internal: success = self.alerter.send(msg), a blocking call
SendReturns(c) ==
    \E success \in SendResults :
        /\ callers[c].pc = "send"
        /\ callers' = [callers EXCEPT ![c].pc = IF success THEN "increment" ELSE "stamp"]
        /\ last' = [op |-> "solo", key |-> callers[c].ticker,
                    outcome |-> IF success THEN "sent_ok" ELSE "sent_fail", tier |-> ""]
        /\ solo_send_time' = [solo_send_time EXCEPT ![callers[c].ticker] = now]
        /\ UNCHANGED <<daily_cap, alert_mode, solo_threshold, alerts_sent_today,
                       market_last_alert, cluster_last_alert, debug_trades_seen,
                       debug_sent_last_min, debug_window_start, cluster_send_time, now,
                       nonGatewayVars>>

\* _send_internal: if success: self.alerts_sent_today += 1
IncrementSent(c) ==
    /\ callers[c].pc = "increment"
    /\ alerts_sent_today' = alerts_sent_today + 1
    /\ callers' = [callers EXCEPT ![c].pc = "stamp"]
    /\ UNCHANGED <<daily_cap, alert_mode, solo_threshold, market_last_alert,
                   cluster_last_alert, debug_trades_seen, debug_sent_last_min,
                   debug_window_start, last, solo_send_time, cluster_send_time, now,
                   nonGatewayVars>>

\* process_solo_alert: self.market_last_alert[ticker] = now, and the call returns
StampLastAlert(c) ==
    /\ callers[c].pc = "stamp"
    /\ market_last_alert' = [market_last_alert EXCEPT ![callers[c].ticker] = callers[c].now]
    /\ callers' = [callers EXCEPT ![c] = IdleCaller]
    /\ UNCHANGED <<daily_cap, alert_mode, solo_threshold, alerts_sent_today,
                   cluster_last_alert, debug_trades_seen, debug_sent_last_min,
                   debug_window_start, last, solo_send_time, cluster_send_time, now,
                   nonGatewayVars>>

InitGatewayFields ==
    /\ alerts_sent_today = 0
    /\ callers = [c \in 1..MaxCallers |-> IdleCaller]
    /\ market_last_alert = [k \in Tickers |-> 0]
    /\ cluster_last_alert = [k \in ClusterKeys |-> 0]
    /\ debug_trades_seen = 0
    /\ debug_sent_last_min = 0
    /\ debug_window_start = 0
    /\ last = NoCall
    /\ solo_send_time = [k \in Tickers |-> -1]
    /\ cluster_send_time = [k \in ClusterKeys |-> -1]

InitGateway ==
    /\ daily_cap \in 0..MaxCap
    /\ alert_mode \in {"prod", "debug"}
    /\ solo_threshold = SOLO_THRESHOLD
    /\ InitGatewayFields
    /\ now = StartTime
    /\ InitBaselineFields
    /\ InitTrackerFields
    /\ InitScoreFields
    /\ InitCollaboratorFields

SoloCall ==
    \E ticker \in Tickers, score \in SoloScores : process_solo_alert(ticker, score)

ClusterCall ==
    \E key \in ClusterKeys, in \in ClusterInputs :
        process_cluster_alert(key, in[1], in[2])

DebugCall ==
    \E ticker \in Tickers, contracts \in DebugContracts :
        process_debug_trade(ticker, contracts)

NextGateway == SoloCall \/ ClusterCall \/ DebugCall

SpecGateway == InitGateway /\ [][NextGateway]_vars

\* the gateway in production mode, under each solo policy
InitGatewayProd ==
    /\ daily_cap \in 0..MaxCap
    /\ alert_mode = "prod"
    /\ solo_threshold \in SoloPolicies
    /\ InitGatewayFields
    /\ now = StartTime
    /\ InitBaselineFields
    /\ InitTrackerFields
    /\ InitScoreFields
    /\ InitCollaboratorFields

SoloPolicyCall ==
    \E ticker \in Tickers, score \in PolicyScores : process_solo_alert(ticker, score)

NextGatewayProd == SoloPolicyCall \/ ClusterCall \/ DebugCall

SpecGatewayProd == InitGatewayProd /\ [][NextGatewayProd]_vars

\* process_solo_alert driven by several threads at once, a thread switch being
\* possible between any two statements
NextConcurrent ==
    \E c \in 1..MaxCallers :
        \/ SoloEnter(c)
        \/ CanSendCheck(c)
        \/ SendReturns(c)
        \/ IncrementSent(c)
        \/ StampLastAlert(c)

SpecConcurrent == InitGateway /\ [][NextConcurrent]_vars

\* the three components, each run driving one of them as monitor.py and the
\* verify scripts do: the baselines, the cluster tracker or the alert gateway
IsolatedUpdate == n_events = 0 /\ last = NoCall /\ FeedUpdate

IsolatedEvent == n_updates = 0 /\ last = NoCall /\ AddEventCall

IsolatedAlert == n_updates = 0 /\ n_events = 0 /\ (SoloCall \/ ClusterCall)

NextIsolation == IsolatedUpdate \/ IsolatedEvent \/ IsolatedAlert

InitIsolation == InitGateway /\ daily_cap = MaxCap /\ alert_mode = "prod"

SpecIsolation == InitIsolation /\ [][NextIsolation]_vars

\* the debug lane alone, with daily caps on both sides of debug_max_per_min
InitDebugLane ==
    /\ daily_cap \in 0..(debug_max_per_min + 1)
    /\ alert_mode \in {"prod", "debug"}
    /\ solo_threshold = SOLO_THRESHOLD
    /\ InitGatewayFields
    /\ now = StartTime
    /\ InitBaselineFields
    /\ InitTrackerFields
    /\ InitScoreFields
    /\ InitCollaboratorFields

NextDebugLane == DebugCall

SpecDebugLane == InitDebugLane /\ [][NextDebugLane]_vars

InitBaselines ==
    /\ daily_cap = 0
    /\ alert_mode = "prod"
    /\ solo_threshold = SOLO_THRESHOLD
    /\ InitGatewayFields
    /\ now = StartTime
    /\ InitBaselineFields
    /\ InitTrackerFields
    /\ InitScoreFields
    /\ InitCollaboratorFields

NextBaselines == FeedUpdate

SpecBaselines == InitBaselines /\ [][NextBaselines]_vars

\* a shorter feed, read by snapshots between its updates
ReadFeedUpdate == n_updates < MaxReadUpdates /\ FeedUpdate

NextBaselinesRead == ReadFeedUpdate \/ SnapshotCall

SpecBaselinesRead == InitBaselines /\ [][NextBaselinesRead]_vars

\* the feed over more than a day: five trades of three sizes, then trades a day
\* later; baselines.update is called with the clock of the receiving process
DayFeedUpdate ==
    \E ticker \in Tickers, t \in {u \in {0, 90500000} : u >= now_ms},
       size \in {<<10, 50>>, <<100, 50>>, <<120, 50>>} :
        /\ n_updates < MaxDayUpdates
        /\ update(ticker, t, size[1], size[2])
        /\ now_ms' = t
        /\ n_updates' = n_updates + 1
        /\ UNCHANGED <<inserted, snap, gatewayVars, now, trackerVars, scoreVars,
                       collaboratorVars>>

\* the scoring step of the feed loop: the ticker's current snapshot is scored
ScoreSnapshotCall ==
    \E ticker \in DOMAIN data, volume_proxy \in {1100, 300000} :
        /\ snap' = [market_ticker |-> ticker, result |-> snapshot(ticker)]
        /\ score_in' = [volume_proxy |-> volume_proxy, baselines |-> snapshot(ticker),
                        hours_to_close |-> None]
        /\ score_out' = score_trade(volume_proxy, snapshot(ticker), None)
        /\ UNCHANGED <<data, inserted, n_updates, now_ms, gatewayVars, now, trackerVars,
                       collaboratorVars>>

NextBaselinesScore == DayFeedUpdate \/ ScoreSnapshotCall

SpecBaselinesScore == InitBaselines /\ [][NextBaselinesScore]_vars

NextBaselinesAny == RecordedUpdate

SpecBaselinesAny == InitBaselines /\ [][NextBaselinesAny]_vars

InitTracker == InitBaselines

NextTracker == AddEventCall

SpecTracker == InitTracker /\ [][NextTracker]_vars

InitScore == InitBaselines

NextScore == ScoreCall

SpecScore == InitScore /\ [][NextScore]_vars

InitClassifier == InitBaselines

NextClassifier == ClassifyCall

SpecClassifier == InitClassifier /\ [][NextClassifier]_vars

\* the Alerter under every environment
InitAlerter ==
    /\ daily_cap = 0
    /\ alert_mode = "prod"
    /\ solo_threshold = SOLO_THRESHOLD
    /\ InitGatewayFields
    /\ now = StartTime
    /\ InitBaselineFields
    /\ InitTrackerFields
    /\ InitScoreFields
    /\ InitClassifierFields
    /\ InitFeedFields
    /\ \E env_token \in TokenValues, env_chat_id \in ChatIdValues :
           alerter_constructed(env_token, env_chat_id)

NextAlerter == SendCall

InitFeed == InitBaselines

NextFeed == FeedMessage

SpecFeed == InitFeed /\ [][NextFeed]_vars

NextReconnect == Connect \/ Disconnect \/ ReceiveTrade

SpecReconnect == InitFeed /\ [][NextReconnect]_vars

InitStore == InitBaselines

NextStore == InsertCall \/ CommitCall

SpecStore == InitStore /\ [][NextStore]_vars

SpecAlerter == InitAlerter /\ [][NextAlerter]_vars

-----------------------------------------------------------------------------
(* Claims about the Alert Gateway, checked under SpecGateway *)

\* C1: for every daily_cap C >= 0 and every sequence of solo, cluster and debug
\* calls with alerter.send succeeding or failing arbitrarily, the count of
\* confirmed dispatches never exceeds C; a call made when the cap is reached
\* invokes no send.
C1_CapNeverExceeded ==
    /\ alerts_sent_today <= daily_cap
    /\ (last.outcome = "cap" => alerts_sent_today = daily_cap)
    /\ (SendInvoked(last.outcome) =>
            alerts_sent_today - (IF last.outcome = "sent_ok" THEN 1 ELSE 0) < daily_cap)

\* daily_cap = 1: ticker A was dispatched, then a qualifying alert for another
\* ticker that was never alerted is suppressed by the cap alone
C1_Witness ==
    /\ daily_cap = 1
    /\ alerts_sent_today = 1
    /\ last.op = "solo"
    /\ last.outcome = "cap"
    /\ solo_send_time[last.key] = -1
    /\ \E other \in Tickers \ {last.key} : solo_send_time[other] >= 0

\* C4: a qualifying candidate arriving less than the lane's cooldown after the
\* key's last attempt causes no send, one arriving at or after the cooldown is
\* sent when the cap permits, and two send invocations for the same key in the
\* same lane are at least one cooldown apart (600 s solo, 300 s cluster).
C4_LaneCooldown(op, last_alert, send_time, cooldown) ==
    (last'.op = op /\ last'.outcome # "threshold") =>
        LET k == last'.key IN
        /\ now' - last_alert[k] < cooldown => last'.outcome = "cooldown"
        /\ (now' - last_alert[k] >= cooldown /\ can_send) => SendInvoked(last'.outcome)
        /\ (now' - send_time[k] >= cooldown /\ can_send) => SendInvoked(last'.outcome)
        /\ (SendInvoked(last'.outcome) /\ send_time[k] # -1) =>
                now' - send_time[k] >= cooldown

C4_Cooldown ==
    [][ /\ C4_LaneCooldown("solo", market_last_alert, solo_send_time, 600)
        /\ C4_LaneCooldown("cluster", cluster_last_alert, cluster_send_time, 300) ]_vars

\* a ticker alerted at StartTime is alerted again exactly 600 s later, and the
\* cluster key is alerted again exactly 300 s after its previous alert
C4_Witness ==
    /\ last.op = "solo"
    /\ SendInvoked(last.outcome)
    /\ now = StartTime + 600
    /\ solo_send_time[last.key] = now
    /\ alerts_sent_today >= 2
    /\ cluster_send_time["presidency"] = StartTime + 300

\* C5 (as claimed): a candidate rejected by the threshold, the cooldown or the cap
\* leaves market_last_alert, cluster_last_alert and alerts_sent_today unchanged,
\* and a debug candidate rejected by the cap does not count in debug_sent_last_min.
C5_RejectedMutatesNothing ==
    [][ /\ (last'.op \in {"solo", "cluster"}
            /\ last'.outcome \in {"threshold", "cooldown", "cap"})
           => UNCHANGED <<market_last_alert, cluster_last_alert, alerts_sent_today>>
        /\ (last'.op = "debug" /\ last'.outcome = "cap")
           => /\ debug_sent_last_min' =
                    IF debug_window_reset(now') THEN 0 ELSE debug_sent_last_min
              /\ UNCHANGED <<market_last_alert, cluster_last_alert, alerts_sent_today>>
      ]_vars

\* C6: when send is invoked for a solo or cluster candidate, the key's
\* last-alert time becomes the time of the attempt whether or not delivery
\* succeeded, and alerts_sent_today grows by one exactly on success.
C6_LaneStamp(op, last_alert) ==
    (last'.op = op /\ SendInvoked(last'.outcome)) =>
        /\ last_alert'[last'.key] = now'
        /\ alerts_sent_today' =
              alerts_sent_today + (IF last'.outcome = "sent_ok" THEN 1 ELSE 0)

C6_StampOnAttempt ==
    [][ /\ C6_LaneStamp("solo", market_last_alert)
        /\ C6_LaneStamp("cluster", cluster_last_alert) ]_vars

\* a failed delivery: the cooldown is stamped although nothing was counted
C6_Witness ==
    /\ last.op = "solo"
    /\ last.outcome = "sent_fail"
    /\ market_last_alert[last.key] = now
    /\ solo_send_time[last.key] = now
    /\ alerts_sent_today = 0
    /\ daily_cap > 0

-----------------------------------------------------------------------------
(* Claims about MarketBaselines *)

\* the entries of seq whose timestamp is at least cutoff, in order
EntriesSince(seq, cutoff) ==
    LET Recent(e) == e[1] >= cutoff IN SelectSeq(seq, Recent)

\* C2 (as claimed): after any sequence of update calls, each of a ticker's four
\* windows holds exactly the inserted entries whose timestamp is at least the
\* latest update's timestamp minus the window's duration, in insertion order.
C2_WindowsExact ==
    \A ticker \in DOMAIN data : \A w \in WindowNames :
        LET latest == inserted[ticker][Len(inserted[ticker])][1]
        IN  data[ticker].trades[w] = EntriesSince(inserted[ticker], latest - WINDOWS_MS[w])

\* C3 (as claimed): for every tracked ticker, median_24h and mad_24h are None
\* exactly when its 24h window holds fewer than 5 samples, also after the window
\* has shrunk below 5 by eviction.
C3_StatsNoneIffFewSamples ==
    \A ticker \in DOMAIN data :
        (data[ticker].median_24h = None /\ data[ticker].mad_24h = None)
            <=> Len(data[ticker].trades["24h"]) < 5

-----------------------------------------------------------------------------
(* Claims about MarketClusterTracker, checked under SpecTracker *)

TickersOf(dq) == {e[2] : e \in Range(dq)}
ScoresOf(dq) == {e[3] : e \in Range(dq)}

\* C7: the count add_event returns is the number of distinct tickers among the
\* cluster's entries in the window, markets lists each of them exactly once, and
\* an event for a ticker the cluster already holds never raises the count.
C7_DistinctCount ==
    [][ n_events' = n_events + 1 =>
          LET k == event_args'.cluster_key
              before == TickersOf(events[k])
              after == TickersOf(events'[k])
          IN  /\ summary'.count = Cardinality(after)
              /\ Len(summary'.markets) = Cardinality(after)
              /\ Range(summary'.markets) = after
              /\ event_args'.ticker \in before => summary'.count <= Cardinality(before)
      ]_vars

\* three events of one cluster in the window, two of them for the same ticker
C7_Witness ==
    /\ n_events = 3
    /\ Len(events[event_args.cluster_key]) = 3
    /\ summary.count = 2
    /\ Len(summary.markets) = 2

\* C8: the summary returned at time now is computed from exactly the events of
\* the cluster key recorded at or after now - window_seconds, the new one
\* included; when every earlier event of the key is older than the window the
\* summary is count = 1 and max_score = the new event's score.
C8_SummaryOfWindow ==
    n_events > 0 =>
        LET k == event_args.cluster_key
            hist == ev_hist[k]
            inwin == EntriesSince(hist, now - 300)
        IN  /\ events[k] = inwin
            /\ summary.count = Cardinality(TickersOf(inwin))
            /\ summary.max_score = Max(ScoresOf(inwin))
            /\ (\A i \in 1..(Len(hist) - 1) : hist[i][1] < now - 300)
                   => summary.count = 1 /\ summary.max_score = event_args.score

\* an event scored 80 has left the window: the summary of a later event scored
\* 70 for another ticker counts one market and reports 70
C8_Witness ==
    /\ n_events > 0
    /\ LET hist == ev_hist[event_args.cluster_key]
       IN  /\ Len(hist) >= 2
           /\ hist[1][3] = 80
           /\ hist[1][2] # event_args.ticker
           /\ hist[1][1] < now - 300
    /\ event_args.score = 70
    /\ summary.count = 1
    /\ summary.max_score = 70

-----------------------------------------------------------------------------
(* Claims about score_trade, checked under SpecScore *)

\* all four signals of the scored input trigger at their top tier
AllTopTiers ==
    LET b == score_in.baselines
        h == score_in.hours_to_close
        v == score_in.volume_proxy
    IN  /\ "median_24h" \in DOMAIN b
        /\ b.median_24h # None
        /\ b.mad_24h # None
        /\ b.mad_24h[1] > 0
        /\ z_at_least(z_num(v, b.median_24h[1]), z_den(b.mad_24h[1]), 8)
        /\ b.trades_60m <= 60
        /\ b.trades_1m >= 10
        /\ h # None
        /\ h[1] <= 24
        /\ v >= 250000

\* C9: score_trade returns a whole score in 0..100 for every input, and exactly
\* 100 when all four signals trigger at their top tiers (40 + 25 + 20 + 20).
C9_ScoreBounded ==
    /\ score_out.score \in 0..100
    /\ AllTopTiers => score_out.score = 100

C9_Witness ==
    /\ AllTopTiers
    /\ score_out.score = 100
    /\ Len(score_out.reasons) = 4

-----------------------------------------------------------------------------
(* C11 *)

\* the k-th smallest member of a sequence, by counting
OrderStat(values, k) ==
    CHOOSE x \in Range(values) :
        /\ Cardinality({i \in DOMAIN values : values[i] < x}) < k
        /\ k <= Cardinality({i \in DOMAIN values : values[i] <= x})

\* the middle value, or the mean of the two middle values
MiddleOf(values) ==
    LET n == Len(values)
    IN  IF n % 2 = 1 THEN OrderStat(values, (n + 1) \div 2)
        ELSE (OrderStat(values, n \div 2) + OrderStat(values, n \div 2 + 1)) \div 2

Vols24h(ticker) ==
    [i \in 1..Len(data[ticker].trades["24h"]) |->
        Quarters(data[ticker].trades["24h"][i][2])]

\* C11: whenever a ticker's 24h window holds at least five samples, median_24h
\* is the median of the volume proxies in the window and mad_24h the median of
\* their absolute deviations from it (mean of the two middle values for an
\* even count); five values of 500 give 500 and 0
C11_MedianMad ==
    \A ticker \in DOMAIN data :
        LET vols == Vols24h(ticker)
            med == MiddleOf(vols)
            devs == [i \in DOMAIN vols |-> Abs(vols[i] - med)]
        IN  Len(vols) >= 5 =>
                /\ data[ticker].median_24h = Some(med)
                /\ data[ticker].mad_24h = Some(MiddleOf(devs))
                /\ (\A i \in DOMAIN vols : vols[i] = Quarters(500)) =>
                       /\ data[ticker].median_24h = Some(Quarters(500))
                       /\ data[ticker].mad_24h = Some(0)

\* five samples of 500 and one of 5000 in the window: the median stays 500
C11_Witness ==
    \E ticker \in DOMAIN data :
        LET vols == Vols24h(ticker)
        IN  /\ Len(vols) = 6
            /\ Cardinality({i \in DOMAIN vols : vols[i] = Quarters(500)}) = 5
            /\ Cardinality({i \in DOMAIN vols : vols[i] = Quarters(5000)}) = 1
            /\ data[ticker].median_24h = Some(Quarters(500))
            /\ data[ticker].mad_24h = Some(0)

-----------------------------------------------------------------------------
(* C12, checked under SpecGatewayProd *)

\* C12: for every configured solo threshold T, process_solo_alert passes the
\* threshold gate exactly when score >= T: under T = 1 a score of 50 passes,
\* under T = 85 it does not
C12_ConfiguredThreshold ==
    [][\A ticker \in Tickers, score \in PolicyScores :
           process_solo_alert(ticker, score) =>
               (last'.outcome # "threshold" <=> score >= solo_threshold)]_vars

-----------------------------------------------------------------------------
(* C13, checked under SpecGatewayProd *)

\* C13: process_cluster_alert passes the tier gate exactly when
\* (max_score >= 70 and count >= 2) or (max_score >= 60 and count >= 3); a
\* message handed to the send path is labelled TIER 1 exactly when the first
\* condition holds and TIER 2 exactly when only the second holds
C13_TierGate ==
    [][\A key \in ClusterKeys, in \in ClusterInputs :
           process_cluster_alert(key, in[1], in[2]) =>
               LET first == in[2] >= 70 /\ in[1] >= 2
                   second == in[2] >= 60 /\ in[1] >= 3
               IN  /\ last'.outcome # "threshold" <=> first \/ second
                   /\ last'.outcome \in {"cap", "sent_ok", "sent_fail"} =>
                          /\ last'.tier = "TIER 1" <=> first
                          /\ last'.tier = "TIER 2" <=> ~first /\ second]_vars

\* a summary of three markets with max_score 60 was dispatched as TIER 2
C13_Witness ==
    /\ last.op = "cluster"
    /\ last.outcome = "sent_ok"
    /\ last.tier = "TIER 2"
    /\ cluster_last_alert[last.key] = now

-----------------------------------------------------------------------------
(* C14 and C15, checked under SpecDebugLane *)

\* C14: in debug mode debug_sent_last_min never exceeds debug_max_per_min; the
\* window is reset only when now - debug_window_start > 60 and the count falls
\* only at a reset; a trade arriving while the count of the window is at
\* debug_max_per_min is rejected whatever its sampling position or size; every
\* message handed to the send path raises the count of its window by one, so
\* at most debug_max_per_min messages are dispatched in one window
C14_DebugRateLimit ==
    [][/\ debug_sent_last_min' <= debug_max_per_min
       /\ \A ticker \in Tickers, contracts \in DebugContracts :
              alert_mode = "debug" /\ process_debug_trade(ticker, contracts) =>
                  LET reset == now' - debug_window_start > 60
                      in_window == IF reset THEN 0 ELSE debug_sent_last_min
                  IN  /\ debug_window_start' # debug_window_start => reset
                      /\ ~reset => debug_sent_last_min' >= debug_sent_last_min
                      /\ in_window >= debug_max_per_min =>
                             /\ last'.outcome = "ratelimit"
                             /\ debug_sent_last_min' = in_window
                             /\ alerts_sent_today' = alerts_sent_today
                      /\ last'.outcome \in {"cap", "sent_ok", "sent_fail"} =>
                             debug_sent_last_min' = in_window + 1]_vars

\* three debug messages were dispatched in the window, the fourth trade of the
\* window was rejected although the daily cap leaves room
C14_Witness ==
    /\ alert_mode = "debug"
    /\ last.outcome = "ratelimit"
    /\ debug_sent_last_min = debug_max_per_min
    /\ alerts_sent_today = debug_max_per_min
    /\ alerts_sent_today < daily_cap
    /\ debug_window_start = now

\* C15: in debug mode every process_debug_trade call raises debug_trades_seen
\* by exactly one, and a trade that is not rate-limited is handed to the send
\* path exactly when the new debug_trades_seen is a multiple of
\* debug_sample_every or contracts >= debug_min_contracts; with the debug lane
\* disabled the call changes no field of the gateway and sends nothing
C15_DebugSampling ==
    [][\A ticker \in Tickers, contracts \in DebugContracts :
           process_debug_trade(ticker, contracts) =>
               IF alert_mode = "debug"
               THEN /\ debug_trades_seen' = debug_trades_seen + 1
                    /\ last'.outcome # "ratelimit" =>
                           (last'.outcome \in {"cap", "sent_ok", "sent_fail"}
                                <=> \/ debug_trades_seen' % debug_sample_every = 0
                                    \/ contracts >= debug_min_contracts)
               ELSE /\ last'.outcome = "disabled"
                    /\ UNCHANGED <<alerts_sent_today, market_last_alert,
                                   cluster_last_alert, debug_trades_seen,
                                   debug_sent_last_min, debug_window_start,
                                   solo_send_time, cluster_send_time, now>>]_vars

\* two small trades off the sampling position were seen and not sent, the
\* trade at the sampling position was dispatched
C15_Witness ==
    /\ alert_mode = "debug"
    /\ debug_trades_seen = debug_sample_every
    /\ last.op = "debug"
    /\ last.outcome = "sent_ok"
    /\ debug_sent_last_min = 1
    /\ alerts_sent_today = 1
    /\ debug_window_start = StartTime
    /\ now = StartTime

-----------------------------------------------------------------------------
(* C16, checked under SpecClassifier *)

\* the rules in their order, each with its keywords
ClusterRules ==
    <<[key |-> "presidency", keywords |-> {kw.trump, kw.biden, kw.president}],
      [key |-> "congress", keywords |-> {kw.house, kw.senate, kw.congress}],
      [key |-> "scotus", keywords |-> {kw.supreme, kw.scotus}],
      [key |-> "elections", keywords |-> {kw.election, kw.primary}],
      [key |-> "rates", keywords |-> {kw.rate, kw.fed, kw.cut}],
      [key |-> "nba", keywords |-> {kw.nba, kw.basketball}]>>

RuleMatches(i, ticker) ==
    \E keyword \in ClusterRules[i].keywords : contains(lower(ticker), keyword)

\* C16: infer_cluster_key returns, for every identifier, the key of the first
\* rule in the order presidency, congress, scotus, elections, rates, nba one of
\* whose keywords is contained in the lower-cased identifier, and "other" when
\* no rule matches; an identifier matching a presidency and an elections
\* keyword is classified presidency
C16_FirstMatchWins ==
    cluster_out # "" =>
        LET matching == {i \in DOMAIN ClusterRules : RuleMatches(i, cluster_in)}
        IN  /\ matching = {} => cluster_out = "other"
            /\ matching # {} =>
                   \E i \in matching :
                       /\ \A j \in matching : i <= j
                       /\ cluster_out = ClusterRules[i].key
            /\ RuleMatches(1, cluster_in) /\ RuleMatches(4, cluster_in) =>
                   cluster_out = "presidency"

\* an upper-case presidency keyword after an elections keyword
C16_Witness ==
    /\ contains(cluster_in, kw.primary)
    /\ contains(lower(cluster_in), kw.biden)
    /\ ~contains(cluster_in, kw.biden)
    /\ cluster_out = "presidency"

-----------------------------------------------------------------------------
(* C17, checked under SpecAlerter *)

\* C17: Alerter.send never raises and returns a boolean; with the bot token or
\* the chat id missing it returns False and makes no HTTP call; it returns
\* False when the HTTP call raises or answers with a status other than 200,
\* and True exactly when the response status is 200
C17_SendNeverRaises ==
    sent # None =>
        LET r == sent[1]
        IN  /\ ~r.raised
            /\ r.returned \in BOOLEAN
            /\ (token \in {None, Some("")} \/ chat_id \in {None, Some("")}) =>
                   /\ r.returned = FALSE
                   /\ posted = None
                   /\ post_calls = 0
            /\ (posted # None /\ http # <<"status", 200>>) => r.returned = FALSE
            /\ r.returned = TRUE <=> (posted # None /\ http = <<"status", 200>>)

\* with both credentials set, requests.post raised and send returned False
C17_Witness ==
    /\ token = Some("123:ABC")
    /\ chat_id = Some("999")
    /\ posted # None
    /\ http = <<"exception">>
    /\ sent = Some([returned |-> FALSE, raised |-> FALSE])

-----------------------------------------------------------------------------
(* C18, C19 and C20, checked under SpecFeed *)

\* C18: for every trade the message loop admits, the baseline update comes
\* first, then the snapshot, then the score, so the scored snapshot counts the
\* trade itself; and whenever the score qualifies, the loop evaluates a solo
\* alert, calls add_event with the classifier's key for the ticker and
\* evaluates a cluster alert of the returned summary
C18_PipelineOrder ==
    [][trade_counter' = trade_counter + 1 =>
           LET tp == trade'[1]
           IN  /\ score_in'.volume_proxy = tp.count * tp.yes_price
               /\ \E ticker \in Tickers :
                      /\ ticker = tp.market_ticker
                      /\ score_in'.baselines = snapshot(ticker)'
               /\ score_in'.baselines.trades_1m >= 1
               /\ score_out'.score >= ALERT_SCORE =>
                      /\ n_events' = n_events + 1
                      /\ event_args' = [cluster_key |-> "presidency",
                                        ticker |-> tp.market_ticker,
                                        score |-> score_out'.score]
                      /\ last'.op = "cluster"
                      /\ last'.key = "presidency"]_vars

\* a trade field that is missing, null or a string that is no number
MalformedField(msg_data, field) ==
    \/ field \notin DOMAIN msg_data
    \/ msg_data[field][1] \in {"str", "null"}

\* C19: a trade message in which yes_price, no_price, count or ts is missing
\* or non-numeric is rejected by parse_trade_message and reaches neither
\* TradeStore.insert_trade nor MarketBaselines.update nor score_trade
C19_MalformedRejected ==
    [][\A raw \in FeedMessages :
           (/\ raw.json
            /\ raw.type = "trade"
            /\ \E field \in TradeFields : MalformedField(raw.msg, field)
            /\ ws_message(raw))
               => /\ trade' = None
                  /\ UNCHANGED <<rows, data, n_updates, score_in, score_out,
                                 trade_counter>>]_vars

\* C20: a trade message identical to one already ingested (same
\* market_ticker, ts, yes_price, no_price, count) is not applied to
\* MarketBaselines.update again: the updates applied are as many as the
\* distinct trades ingested, ticker by ticker
C20_DuplicatesNotApplied ==
    /\ n_updates = Len(rows)
    /\ \A ticker \in DOMAIN data :
           Len(data[ticker].trades["24h"])
               = Cardinality({i \in DOMAIN rows : rows[i].market_ticker = ticker})

-----------------------------------------------------------------------------
(* C21, checked under SpecStore *)

\* C21: insert_trade is idempotent on the key (market_ticker, ts_exchange,
\* yes_price_cents, no_price_cents, contracts): an insert whose key equals
\* the key of a stored row leaves the rows unchanged, an insert with a new
\* key adds exactly one row
C21_InsertIdempotent ==
    [][\A market_ticker \in Tickers, yes_price_cents \in StoreYesPrices,
          no_price_cents \in StoreNoPrices, contracts \in StoreContracts,
          ts_exchange \in StoreTimes :
           insert_trade(market_ticker, yes_price_cents, no_price_cents, contracts,
                        ts_exchange) =>
               LET key == [market_ticker |-> market_ticker,
                           ts_exchange |-> ts_exchange,
                           yes_price_cents |-> yes_price_cents,
                           no_price_cents |-> no_price_cents,
                           contracts |-> contracts]
               IN  IF \E i \in DOMAIN rows : rows[i] = key
                   THEN rows' = rows
                   ELSE rows' = Append(rows, key)]_vars

-----------------------------------------------------------------------------
(* C22, checked under SpecBaselinesRead *)

\* C22: snapshot changes no window and no statistic of any ticker; it returns
\* trades_1m, trades_5m and trades_60m equal to the lengths of the windows
\* and the two statistics as held; for a ticker never updated it returns the
\* empty result and creates no record for the ticker
C22_SnapshotReadOnly ==
    [][snap' # snap =>
           LET ticker == snap'.market_ticker
               result == snap'.result
           IN  /\ data' = data
               /\ ticker \notin DOMAIN data =>
                      /\ result = << >>
                      /\ ticker \notin DOMAIN data'
               /\ ticker \in DOMAIN data =>
                      /\ result.trades_1m = Len(data[ticker].trades["1m"])
                      /\ result.trades_5m = Len(data[ticker].trades["5m"])
                      /\ result.trades_60m = Len(data[ticker].trades["60m"])
                      /\ result.median_24h = data[ticker].median_24h
                      /\ result.mad_24h = data[ticker].mad_24h]_vars

\* TRUMP-A has its statistics; a snapshot of TRUMP-B, never updated, returned
\* the empty result and TRUMP-B has no record
C22_Witness ==
    /\ snap = [market_ticker |-> "TRUMP-B", result |-> << >>]
    /\ DOMAIN data = {"TRUMP-A"}
    /\ data["TRUMP-A"].median_24h # None

-----------------------------------------------------------------------------
(* C23, checked under SpecBaselinesScore *)

\* C23: whenever the ticker's 24h window holds fewer than 5 samples, scoring
\* the ticker's current snapshot adds no size-shock points and no size_z
\* reason, whatever the volume_proxy
C23_NoShockBelowMinSamples ==
    [][\A ticker \in Tickers :
           (/\ snap' # snap
            /\ snap'.market_ticker = ticker
            /\ ticker \in DOMAIN data
            /\ Len(data[ticker].trades["24h"]) < MIN_SAMPLES) =>
               /\ \A i \in DOMAIN score_out'.reasons : score_out'.reasons[i][1] # "size_z="
               /\ score_out'.score =
                      score_trade(score_in'.volume_proxy,
                                  [snap'.result EXCEPT !.median_24h = None,
                                                       !.mad_24h = None],
                                  None).score]_vars

-----------------------------------------------------------------------------
(* C24, checked under SpecScore *)

\* the points of the highest tier the value reaches, tiers in falling order
TierPoints(reaches, points) ==
    IF reaches[1] THEN points[1]
    ELSE IF reaches[2] THEN points[2]
    ELSE IF Len(reaches) = 3 /\ reaches[3] THEN points[3] ELSE 0

\* (volume_proxy - median) / (1.4826 * mad + 1) >= tier, median and mad in
\* quarters: 5 * (4 * volume_proxy - median4) * 1000 >= tier * (7413 * mad4 + 20000)
SizeZReaches(v, median4, mad4, tier) ==
    5 * (4 * v - median4) >= (tier * (7413 * mad4 + 20000) + 999) \div 1000

\* trades_1m / max(trades_60m / 60, 1) >= tier
BurstReaches(t1, t60, tier) == 60 * t1 >= tier * (IF t60 > 60 THEN t60 ELSE 60)

\* the points of the four signals of the scored input, in the order size
\* shock, burst, short-dated, absolute size
SignalPoints ==
    LET b == score_in.baselines
        h == score_in.hours_to_close
        v == score_in.volume_proxy
        stats == /\ "median_24h" \in DOMAIN b
                 /\ b.median_24h # None
                 /\ b.mad_24h # None
                 /\ b.mad_24h[1] > 0
        t1 == IF "trades_1m" \in DOMAIN b THEN b.trades_1m ELSE 0
        t60 == IF "trades_60m" \in DOMAIN b THEN b.trades_60m ELSE 0
    IN  << IF stats
           THEN TierPoints([k \in 1..3 |->
                               SizeZReaches(v, b.median_24h[1], b.mad_24h[1],
                                            <<8, 5, 3>>[k])], <<40, 25, 10>>)
           ELSE 0,
           TierPoints([k \in 1..3 |-> BurstReaches(t1, t60, <<10, 6, 3>>[k])],
                      <<25, 18, 10>>),
           IF h = None THEN 0
           ELSE TierPoints([k \in 1..3 |-> h[1] <= <<24, 72, 168>>[k]], <<20, 12, 6>>),
           TierPoints([k \in 1..2 |-> v >= <<250000, 100000>>[k]], <<20, 15>>) >>

\* the signal a reason tag belongs to
SignalOf(tag) ==
    IF tag = "size_z=" THEN 1
    ELSE IF tag = "burst=" THEN 2
    ELSE IF tag \in {"short_dated<=24h", "short_dated<=72h", "short_dated<=7d"} THEN 3
    ELSE IF tag \in {"abs_size>=250k", "abs_size>=100k"} THEN 4 ELSE 0

\* C24: each of the four signals counts once, at its highest qualifying tier
\* (size shock 40/25/10, burst 25/18/10, short-dated 20/12/6, absolute size
\* 20/15); the score is min(100, sum of the points) and reasons holds exactly
\* one tag per triggered signal, in the order of the signals
C24_TiersOnceEach ==
    LET total == SignalPoints[1] + SignalPoints[2] + SignalPoints[3] + SignalPoints[4]
        triggered == SelectSeq(<<1, 2, 3, 4>>, LAMBDA k : SignalPoints[k] > 0)
    IN  /\ score_out.score = IF total < 100 THEN total ELSE 100
        /\ Len(score_out.reasons) = Len(triggered)
        /\ \A i \in DOMAIN triggered : SignalOf(score_out.reasons[i][1]) = triggered[i]

\* all four signals triggered, three of them below their top tier:
\* 40 + 18 + 12 + 15
C24_Witness ==
    /\ SignalPoints = <<40, 18, 12, 15>>
    /\ score_out.score = 85
    /\ Len(score_out.reasons) = 4

-----------------------------------------------------------------------------
(* C25, checked under SpecConcurrent *)

\* C25: with two or more callers of process_solo_alert interleaving between
\* the can_send check, the blocking alerter.send and the increment,
\* alerts_sent_today never exceeds daily_cap, and two send invocations for the
\* same ticker are at least one cooldown apart
C25_ConcurrentCapAndCooldown ==
    /\ [](alerts_sent_today <= daily_cap)
    /\ [][\A c \in 1..MaxCallers :
              (callers[c].pc = "send" /\ callers'[c].pc # "send") =>
                  \/ solo_send_time[callers[c].ticker] = -1
                  \/ now - solo_send_time[callers[c].ticker] >= MARKET_COOLDOWN]_vars

-----------------------------------------------------------------------------
(* C26, checked under SpecGatewayProd *)

\* C26: a solo candidate whose score meets the threshold of the gate, whose
\* ticker had no gate-passing attempt in the last 600 s (a ticker never
\* alerted included) and which arrives while alerts_sent_today < daily_cap
\* has alerter.send invoked once, for its ticker, within the call; so has a
\* cluster candidate that meets a tier 300 s or more after the last
\* gate-passing attempt for its key
C26_GenuineSignalSent ==
    [][/\ \A ticker \in Tickers, score \in PolicyScores :
              (/\ process_solo_alert(ticker, score)
               /\ score >= SOLO_THRESHOLD
               /\ now' - market_last_alert[ticker] >= MARKET_COOLDOWN
               /\ alerts_sent_today < daily_cap) =>
                  /\ last'.op = "solo"
                  /\ last'.key = ticker
                  /\ SendInvoked(last'.outcome)
                  /\ solo_send_time'[ticker] = now'
                  /\ alerts_sent_today' =
                         alerts_sent_today + (IF last'.outcome = "sent_ok" THEN 1 ELSE 0)
       /\ \A key \in ClusterKeys, in \in ClusterInputs :
              (/\ process_cluster_alert(key, in[1], in[2])
               /\ \/ in[2] >= 70 /\ in[1] >= 2
                  \/ in[2] >= 60 /\ in[1] >= 3
               /\ now' - cluster_last_alert[key] >= CLUSTER_COOLDOWN
               /\ alerts_sent_today < daily_cap) =>
                  /\ last'.op = "cluster"
                  /\ last'.key = key
                  /\ SendInvoked(last'.outcome)
                  /\ cluster_send_time'[key] = now'
                  /\ alerts_sent_today' =
                         alerts_sent_today + (IF last'.outcome = "sent_ok" THEN 1 ELSE 0)]_vars

\* the cluster key, alerted at StartTime, is alerted again exactly 300 s later
\* with the cap not reached, and both sends are confirmed; no solo alert was sent
C26_Witness ==
    /\ last.op = "cluster"
    /\ last.outcome = "sent_ok"
    /\ now = StartTime + 300
    /\ cluster_send_time["presidency"] = now
    /\ cluster_last_alert["presidency"] = now
    /\ alerts_sent_today = 2
    /\ \A ticker \in Tickers : solo_send_time[ticker] = -1

-----------------------------------------------------------------------------
(* C27, checked under SpecBaselinesAny *)

\* a is the last Len(a) entries of b
IsSuffix(a, b) ==
    /\ Len(a) <= Len(b)
    /\ a = SubSeq(b, Len(b) - Len(a) + 1, Len(b))

\* C27: for any update sequence, timestamps in any order, the 1m window of a
\* ticker is a suffix of its 5m window, that one of its 60m window and that one
\* of its 24h window, which is a suffix of the ticker's updates; no window is
\* empty and each ends with the ticker's latest trade
C27_WindowsNested ==
    \A ticker \in DOMAIN data :
        LET trades == data[ticker].trades
            added == inserted[ticker]
        IN  /\ IsSuffix(trades["1m"], trades["5m"])
            /\ IsSuffix(trades["5m"], trades["60m"])
            /\ IsSuffix(trades["60m"], trades["24h"])
            /\ IsSuffix(trades["24h"], added)
            /\ 1 <= Len(trades["1m"])
            /\ \A w \in WindowNames : trades[w][Len(trades[w])] = added[Len(added)]

\* timestamps out of order: the trade at 4000000 evicted both earlier trades
\* from the 1m and 5m windows and none from the 60m and 24h windows
C27_Witness ==
    /\ Len(inserted["TRUMP-A"]) = 3
    /\ inserted["TRUMP-A"][1][1] = 1000000
    /\ inserted["TRUMP-A"][2][1] = 0
    /\ inserted["TRUMP-A"][3][1] = 4000000
    /\ Len(data["TRUMP-A"].trades["1m"]) = 1
    /\ Len(data["TRUMP-A"].trades["5m"]) = 1
    /\ Len(data["TRUMP-A"].trades["60m"]) = 3
    /\ Len(data["TRUMP-A"].trades["24h"]) = 3

-----------------------------------------------------------------------------
(* C28, checked under SpecGateway *)

\* C28: alerts_sent_today never decreases, and a call of any lane made when
\* alerts_sent_today equals daily_cap invokes no send (none is recorded as the
\* call's outcome, nor for a ticker or a cluster key) and leaves the
\* counter at daily_cap, so that no send is invoked for the rest of the run
C28_CapIsFinal ==
    [][/\ alerts_sent_today' >= alerts_sent_today
       /\ alerts_sent_today = daily_cap =>
              /\ alerts_sent_today' = daily_cap
              /\ solo_send_time' = solo_send_time
              /\ cluster_send_time' = cluster_send_time
              /\ last' # last => ~SendInvoked(last'.outcome)]_vars

\* debug mode, daily_cap = 2: both dispatches were used, and a qualifying debug
\* trade inside the rate limit is suppressed by the cap
C28_Witness ==
    /\ alert_mode = "debug"
    /\ daily_cap = 2
    /\ alerts_sent_today = 2
    /\ last.op = "debug"
    /\ last.outcome = "cap"
    /\ debug_sent_last_min < debug_max_per_min

-----------------------------------------------------------------------------
(* C29, checked under SpecIsolation *)

\* C29: update for a ticker, whose record it changes by the trade added, leaves
\* the windows and statistics of every other ticker unchanged; add_event for a cluster key leaves the sequence of every
\* other cluster key unchanged, unpruned; a solo alert for a ticker changes no
\* other ticker's solo cooldown and no cluster cooldown
C29_PerKeyIsolation ==
    [][/\ n_updates' = n_updates + 1 =>
              \E ticker \in Tickers :
                  /\ DOMAIN data' = DOMAIN data \cup {ticker}
                  /\ data'[ticker].trades["24h"][Len(data'[ticker].trades["24h"])][1] = now_ms'
                  /\ ticker \in DOMAIN data => data'[ticker] # data[ticker]
                  /\ \A other \in DOMAIN data \ {ticker} : data'[other] = data[other]
       /\ n_events' = n_events + 1 =>
              \A other \in TrackedClusters \ {event_args'.cluster_key} :
                  events'[other] = events[other]
       /\ \A ticker \in Tickers, score \in SoloScores :
              process_solo_alert(ticker, score) =>
                  /\ \A other \in Tickers \ {ticker} :
                         market_last_alert'[other] = market_last_alert[other]
                  /\ cluster_last_alert' = cluster_last_alert]_vars

\* an event for presidency 600 s after the only event for scotus: the scotus
\* entry, older than the window, is still held
C29_Witness ==
    /\ event_args.cluster_key = "presidency"
    /\ now = StartTime + 600
    /\ Len(events["scotus"]) = 1
    /\ events["scotus"][1][1] = StartTime
    /\ Len(events["presidency"]) = 1
    /\ events["presidency"][1][1] = now

-----------------------------------------------------------------------------
(* C30, checked under SpecReconnect *)

\* C30: backoff stays within 1..30; it is 1 after every successful
\* connect-and-subscribe and is doubled, up to 30, after each failed and each
\* dropped connection; the baselines and the trade counter are the same
\* before and after a reconnect
C30_ReconnectBackoff ==
    /\ [](backoff \in 1..30)
    /\ [][LET doubled == IF backoff * 2 < 30 THEN backoff * 2 ELSE 30
          IN  /\ (ws = "closed" /\ ws' = "open") => backoff' = 1
              /\ (ws = "closed" /\ ws' = "closed") => backoff' \in {backoff, doubled}
              /\ (ws = "open" /\ ws' = "closed") => backoff' = doubled
              /\ ws' # ws => data' = data /\ trade_counter' = trade_counter]_vars

=============================================================================
